---- MODULE Spec2Model ----
(***************************************************************************)
(* Model of mautrix_appservice/intent_api.py: the identity router          *)
(* (HTTPAPI with its children cache of ChildHTTPAPI contexts) and the      *)
(* per-identity IntentAPI with its registered flag and membership cache.   *)
(* The wrapped MatrixHttpApi transport is external: every transport call   *)
(* either succeeds or raises MatrixRequestError with some content.         *)
(***************************************************************************)
EXTENDS Integers, Sequences, FiniteSets, TLC

\* ---------------------------------------------------------------- bounds
MaxIntents == 2
MaxTxn == 3
MaxSenders == 1

\* ---------------------------------------------------------------- inputs
\* Identifiers are sequences of characters, so that mxid_regex can be run.
Alice == <<"@", "a", ":", "x">>
NoSigil == <<"a", ":", "x">>
BotMxid == <<"@", "m", ":", "x">>
Users == {Alice, NoSigil}
Rooms == {"!r1"}

\* Python's None, for the str-valued fields that may hold it.
None == "None"
\* The absent sequence value (no match of mxid_regex, no user argument).
NoSeq == <<>>

\* MatrixRequestError.content values the transport may raise with.
JsonForbidden == "{\"errcode\": \"M_FORBIDDEN\"}"
JsonInUse == "{\"errcode\": \"M_USER_IN_USE\"}"
NotJson == "Bad Gateway"
ErrContents == {JsonForbidden, JsonInUse, NotJson}
Ok == "ok"
Outcomes == {Ok} \cup ErrContents

\* ---------------------------------------------------------------- state
VARIABLES
    children,   \* HTTPAPI.children of the router: identifier -> ChildHTTPAPI
    built,      \* how many ChildHTTPAPI objects were constructed per identifier
    intents,    \* the IntentAPI objects constructed so far, in order
    regSeen,    \* history: the mxids a transport register call was issued for
    txn,        \* the txn_id instance attributes: context object -> counter
    written,    \* history: the latest write of txn_id, and through which context
    last        \* history: the operation performed by the latest step

vars == <<children, built, intents, regSeen, txn, written, last>>

\* A connection context: its acting identity and which of the objects built
\* for that identity it is. The router itself is built with identity=None.
RootCtx == [identity |-> NoSeq, serial |-> 0]
ChildHTTPAPI(user, serial) == [identity |-> user, serial |-> serial]

\* ---------------------------------------------------------------- helpers
\* json.loads(err.content)["errcode"], or "" where that raises.
JsonErrcode(content) ==
    CASE content = JsonForbidden -> "M_FORBIDDEN"
      [] content = JsonInUse -> "M_USER_IN_USE"
      [] OTHER -> ""

IsJsonWithErrcode(content) == content \in {JsonForbidden, JsonInUse}

matrix_error_code(content) ==
    IF IsJsonWithErrcode(content) THEN JsonErrcode(content) ELSE content

\* mxid_regex = re.compile("@(.+):(.+)"); search() takes the leftmost "@" from
\* which the pattern matches, and the greedy group 1 ends at the last ":" that
\* still leaves one character for group 2.
ColonsAfter(s, i) == {j \in (i + 2)..(Len(s) - 1) : s[j] = ":"}
MatchStarts(s) == {i \in 1..Len(s) : s[i] = "@" /\ ColonsAfter(s, i) # {}}
SetMin(S) == CHOOSE x \in S : \A y \in S : x <= y
SetMax(S) == CHOOSE x \in S : \A y \in S : x >= y
mxid_regex_matches(s) == MatchStarts(s) # {}
mxid_regex_group1(s) ==
    LET i == SetMin(MatchStarts(s))
        j == SetMax(ColonsAfter(s, i))
    IN SubSeq(s, i + 1, j - 1)

\* dict.get(room_id, "")
MembershipGet(m, r) == IF r \in DOMAIN m THEN m[r] ELSE ""
\* dict[room_id] = "join"
MembershipSet(m, r) == [x \in (DOMAIN m) \cup {r} |-> IF x = r THEN "join" ELSE m[x]]

\* Exceptions: type, message kind and the wrapped MatrixRequestError content.
NoExc == [type |-> "none", msg |-> "", source |-> ""]
IntentError(msg, content) == [type |-> "IntentError", msg |-> msg, source |-> content]
MatrixRequestError(content) == [type |-> "MatrixRequestError", msg |-> "", source |-> content]
ValueError(msg) == [type |-> "ValueError", msg |-> msg, source |-> ""]
AttributeError == [type |-> "AttributeError", msg |-> "NoneType.invite_user", source |-> ""]

\* HTTPAPI.__init__ gives the router its own counter, starting at 0;
\* ChildHTTPAPI.__init__ assigns no txn_id.
HTTPAPI_init_txn == [c \in {RootCtx} |-> 0]

\* ChildHTTPAPI.parent: every derived context is built by the router's user().
Parent(c) == RootCtx

\* ChildHTTPAPI.txn_id, the property: the parent's counter.
ChildHTTPAPI_txn_id(t, c) == t[Parent(c)]

\* ChildHTTPAPI.txn_id, the setter: stores into the parent's counter.
ChildHTTPAPI_txn_id_set_own(t, c, value) ==
    [x \in (DOMAIN t) \cup {c} |-> IF x = c THEN value ELSE t[x]]

ChildHTTPAPI_txn_id_set(t, c, value) == [t EXCEPT ![Parent(c)] = value]

\* Reading and assigning txn_id on any context: the instance attribute on the
\* router, the property on a derived context.
txn_id(t, c) == IF c = RootCtx THEN t[c] ELSE ChildHTTPAPI_txn_id(t, c)

txn_id_set(t, c, value) ==
    IF c = RootCtx THEN [t EXCEPT ![c] = value] ELSE ChildHTTPAPI_txn_id_set(t, c, value)

\* Query parameters are a dict, here a function from keys to values.
NoParams == <<>>

\* HTTPAPI._send: an empty (or missing) query_params becomes a new dict, and
\* its "user_id" is set to the identity of the context, whatever the caller
\* put there. Yields the query parameters the request goes out with.
HTTPAPI_send_keep(identity, query_params) ==
    [k \in (DOMAIN query_params) \cup {"user_id"} |->
        IF k \in DOMAIN query_params THEN query_params[k] ELSE identity]

HTTPAPI_send(identity, query_params) ==
    [k \in (DOMAIN query_params) \cup {"user_id"} |->
        IF k = "user_id" THEN identity ELSE query_params[k]]

\* The content of an event or request, where a call carries none.
NoBody == [none |-> TRUE]

\* One transport request: which method, through which client, with which
\* arguments, the query parameters _send gives it, and its result.
Request(api, client, room, user, etype, body, query_params, res) ==
    [api |-> api, client |-> client, room |-> room, user |-> user,
     etype |-> etype, body |-> body,
     query |-> HTTPAPI_send(client.identity, query_params), res |-> res]

\* A call of a method of the wrapped client that passes no query parameters
\* and no event.
Call(api, client, room, user, res) ==
    Request(api, client, room, user, "", NoBody, NoParams, res)

\* ---------------------------------------------------------------- HTTPAPI
\* HTTPAPI.user: the cached child, or a new ChildHTTPAPI put in the cache.
\* Yields the cache, the construction counts and the returned context.
HTTPAPI_user_nocache(ch, bl, u) ==
    LET child == ChildHTTPAPI(u, bl[u] + 1)
    IN [children |-> [x \in (DOMAIN ch) \cup {u} |-> IF x = u THEN child ELSE ch[x]],
        built |-> [bl EXCEPT ![u] = @ + 1],
        ret |-> child]

HTTPAPI_user(ch, bl, u) ==
    IF u \in DOMAIN ch
    THEN [children |-> ch, built |-> bl, ret |-> ch[u]]
    ELSE LET child == ChildHTTPAPI(u, bl[u] + 1)
         IN [children |-> [x \in (DOMAIN ch) \cup {u} |-> IF x = u THEN child ELSE ch[x]],
             built |-> [bl EXCEPT ![u] = @ + 1],
             ret |-> child]

\* IntentAPI.__init__: the new object, or ValueError when mxid_regex fails.
IntentAPI_init(mxid, client, bot) ==
    IF ~mxid_regex_matches(mxid)
    THEN [exc |-> ValueError("invalid MXID"), obj |-> <<>>]
    ELSE [exc |-> NoExc,
          obj |-> <<[mxid |-> mxid, client |-> client, bot |-> bot,
                     localpart |-> mxid_regex_group1(mxid),
                     memberships |-> <<>>, registered |-> FALSE]>>]

\* The bot argument of IntentAPI.__init__: None, or the router itself.
RouterRef == "HTTPAPI"

\* ---------------------------------------------------------------- IntentAPI
\* The result of running (part of) a method: the Intent afterwards, the
\* transport calls made in order, and the exception raised (NoExc if none).
Res(it, calls, exc) == [it |-> it, calls |-> calls, exc |-> exc]

\* The transport is external: each call made returns (Ok) or raises
\* MatrixRequestError with some content. A method therefore has a set of
\* runs, one per way its transport calls can turn out, and each operator
\* below yields that set.

\* Two variants of the handling of client.register's outcome. This one
\* swallows every error of register and goes on unregistered.
registered_or_raise_swallow(it, c, oreg) ==
    IF oreg # Ok
    THEN Res(it, <<c>>, NoExc)
    ELSE Res([it EXCEPT !.registered = TRUE], <<c>>, NoExc)

\* This one goes on after M_USER_IN_USE without setting the flag.
registered_or_raise_inuse(it, c, oreg) ==
    IF oreg # Ok /\ matrix_error_code(oreg) # "M_USER_IN_USE"
    THEN Res(it, <<c>>, IntentError("register", oreg))
    ELSE Res([it EXCEPT !.registered = (oreg = Ok)], <<c>>, NoExc)

\* The outcome of client.register as _ensure_registered handles it.
registered_or_raise(it, c, oreg) ==
    IF oreg # Ok /\ matrix_error_code(oreg) # "M_USER_IN_USE"
    THEN Res(it, <<c>>, IntentError("register", oreg))
    ELSE Res([it EXCEPT !.registered = TRUE], <<c>>, NoExc)

\* Three variants of _ensure_registered that differ from the code in one
\* place each. This one raises on M_USER_IN_USE too.
ensure_registered_strict(it) ==
    IF it.registered
    THEN {Res(it, <<>>, NoExc)}
    ELSE {LET c == Call("register", it.client, "", it.localpart, oreg)
          IN IF oreg # Ok
             THEN Res(it, <<c>>, IntentError("register", oreg))
             ELSE Res([it EXCEPT !.registered = TRUE], <<c>>, NoExc) :
          oreg \in Outcomes}

\* This one never sets the flag.
ensure_registered_noflag(it) ==
    IF it.registered
    THEN {Res(it, <<>>, NoExc)}
    ELSE {LET r == registered_or_raise(it, Call("register", it.client, "", it.localpart, oreg),
                                       oreg)
          IN Res(it, r.calls, r.exc) :
          oreg \in Outcomes}

\* This one never reads the flag.
ensure_registered_always(it) ==
    {registered_or_raise(it, Call("register", it.client, "", it.localpart, oreg), oreg) :
     oreg \in Outcomes}

\* IntentAPI._ensure_registered
ensure_registered(it) ==
    IF it.registered
    THEN {Res(it, <<>>, NoExc)}
    ELSE {registered_or_raise(it, Call("register", it.client, "", it.localpart, oreg), oreg) :
          oreg \in Outcomes}

\* The code reads the error code of register and of the first join only; of
\* the other calls it only tells success from failure.
Opaque == {Ok, JsonForbidden}

\* Two variants of the try block of the except-branch. This one joins a third
\* time when the second join fails.
invite_and_retry_again(it, room_id, j1) ==
    UNION {LET inv == Call("invite_user", RootCtx, room_id, it.mxid, oinv)
           IN IF oinv # Ok
              THEN {Res(it, <<j1, inv>>, IntentError("join", oinv))}
              ELSE UNION {LET j2 == Call("join_room", it.client, room_id, NoSeq, ojoin2)
                          IN IF ojoin2 # Ok
                             THEN {LET j3 == Call("join_room", it.client, room_id, NoSeq,
                                                  ojoin3)
                                   IN IF ojoin3 # Ok
                                      THEN Res(it, <<j1, inv, j2, j3>>,
                                               IntentError("join", ojoin3))
                                      ELSE Res([it EXCEPT
                                                  !.memberships = MembershipSet(@, room_id)],
                                               <<j1, inv, j2, j3>>, NoExc) :
                                   ojoin3 \in Opaque}
                             ELSE {Res([it EXCEPT !.memberships = MembershipSet(@, room_id)],
                                       <<j1, inv, j2>>, NoExc)} :
                          ojoin2 \in Opaque} :
           oinv \in Opaque}

\* This one drops the cached memberships when the invite or the second join
\* fails.
invite_and_retry_forget(it, room_id, j1) ==
    UNION {LET inv == Call("invite_user", RootCtx, room_id, it.mxid, oinv)
           IN IF oinv # Ok
              THEN {Res([it EXCEPT !.memberships = <<>>], <<j1, inv>>,
                        IntentError("join", oinv))}
              ELSE {LET j2 == Call("join_room", it.client, room_id, NoSeq, ojoin2)
                    IN IF ojoin2 # Ok
                       THEN Res([it EXCEPT !.memberships = <<>>], <<j1, inv, j2>>,
                                IntentError("join", ojoin2))
                       ELSE Res([it EXCEPT !.memberships = MembershipSet(@, room_id)],
                                <<j1, inv, j2>>, NoExc) :
                    ojoin2 \in Opaque} :
           oinv \in Opaque}

\* The try block of the except-branch: invite through self.bot, join again.
invite_and_retry(it, room_id, j1) ==
    UNION {LET inv == Call("invite_user", RootCtx, room_id, it.mxid, oinv)
           IN IF oinv # Ok
              THEN {Res(it, <<j1, inv>>, IntentError("join", oinv))}
              ELSE {LET j2 == Call("join_room", it.client, room_id, NoSeq, ojoin2)
                    IN IF ojoin2 # Ok
                       THEN Res(it, <<j1, inv, j2>>, IntentError("join", ojoin2))
                       ELSE Res([it EXCEPT !.memberships = MembershipSet(@, room_id)],
                                <<j1, inv, j2>>, NoExc) :
                    ojoin2 \in Opaque} :
           oinv \in Opaque}

\* A variant of the except-branch that retries the join without the invite.
join_fallback_noinvite(it, room_id, j1, e) ==
    IF matrix_error_code(e) # "M_FORBIDDEN" /\ it.bot = None
    THEN {Res(it, <<j1>>, IntentError("join", e))}
    ELSE IF it.bot = None
         THEN {Res(it, <<j1>>, AttributeError)}
         ELSE {LET j2 == Call("join_room", it.client, room_id, NoSeq, ojoin2)
               IN IF ojoin2 # Ok
                  THEN Res(it, <<j1, j2>>, IntentError("join", ojoin2))
                  ELSE Res([it EXCEPT !.memberships = MembershipSet(@, room_id)],
                           <<j1, j2>>, NoExc) :
               ojoin2 \in Opaque}

\* The except-branch of _ensure_joined, entered with the first join's call j1
\* and its error e: raise, or invite through self.bot and join again. With
\* self.bot None the attribute access invite_user raises AttributeError,
\* which no except clause catches.
join_fallback(it, room_id, j1, e) ==
    IF matrix_error_code(e) # "M_FORBIDDEN" /\ it.bot = None
    THEN {Res(it, <<j1>>, IntentError("join", e))}
    ELSE IF it.bot = None
         THEN {Res(it, <<j1>>, AttributeError)}
         ELSE invite_and_retry(it, room_id, j1)

\* The cache test that opens _ensure_joined: TRUE when it returns at once.
cache_hit(it, room_id, ignore_cache) ==
    ignore_cache /\ MembershipGet(it.memberships, room_id) = "join"

\* A variant of the try statement that stores the membership before the join
\* is known to have succeeded.
try_join_optimistic(it, room_id) ==
    UNION {LET j1 == Call("join_room", it.client, room_id, NoSeq, ojoin1)
               joined == [it EXCEPT !.memberships = MembershipSet(@, room_id)]
           IN IF ojoin1 = Ok
              THEN {Res(joined, <<j1>>, NoExc)}
              ELSE join_fallback(joined, room_id, j1, ojoin1) :
           ojoin1 \in Outcomes}

\* The try statement of _ensure_joined, on a registered Intent.
try_join(it, room_id) ==
    UNION {LET j1 == Call("join_room", it.client, room_id, NoSeq, ojoin1)
           IN IF ojoin1 = Ok
              THEN {Res([it EXCEPT !.memberships = MembershipSet(@, room_id)], <<j1>>, NoExc)}
              ELSE join_fallback(it, room_id, j1, ojoin1) :
           ojoin1 \in Outcomes}

\* A variant of _ensure_joined that does not call _ensure_registered.
ensure_joined_unregistered(it, room_id, ignore_cache) ==
    IF cache_hit(it, room_id, ignore_cache)
    THEN {Res(it, <<>>, NoExc)}
    ELSE try_join(it, room_id)

\* IntentAPI._ensure_joined
ensure_joined(it, room_id, ignore_cache) ==
    IF cache_hit(it, room_id, ignore_cache)
    THEN {Res(it, <<>>, NoExc)}
    ELSE UNION {IF r.exc # NoExc
                THEN {r}
                ELSE {Res(t.it, r.calls \o t.calls, t.exc) : t \in try_join(r.it, room_id)} :
                r \in ensure_registered(it)}

\* A variant of send_event / send_state_event that sends whether or not
\* _ensure_joined raised.
send_any_anyway(api, it, room_id, type, body) ==
    UNION {{Res(r.it,
                Append(r.calls, Request(api, it.client, room_id, NoSeq, type, body,
                                        NoParams, osend)),
                IF r.exc # NoExc THEN r.exc
                ELSE IF osend = Ok THEN NoExc ELSE MatrixRequestError(osend)) :
            osend \in Opaque} :
           r \in ensure_joined(it, room_id, FALSE)}

\* send_event / send_state_event: _ensure_joined, the power-level stub, then
\* the transport's send, whose MatrixRequestError propagates unwrapped.
send_any(api, it, room_id, type, body) ==
    UNION {IF r.exc # NoExc
           THEN {r}
           ELSE {Res(r.it,
                     Append(r.calls, Request(api, it.client, room_id, NoSeq, type, body,
                                             NoParams, osend)),
                     IF osend = Ok THEN NoExc ELSE MatrixRequestError(osend)) :
                 osend \in Opaque} :
           r \in ensure_joined(it, room_id, FALSE)}

send_event(it, room_id, type, body) ==
    send_any("send_message_event", it, room_id, type, body)

send_state_event(it, room_id, type, body) ==
    send_any("send_state_event", it, room_id, type, body)

\* IntentAPI.send_message
send_message(it, room_id, body) == send_event(it, room_id, "m.room.message", body)

\* Python truth of an optional string: None and the empty string are false.
Truthy(x) == x # None /\ x # ""

\* The content send_text builds from its arguments.
send_text_body_plain(text, html, unformatted_text, notice) ==
    [body |-> text, msgtype |-> IF notice THEN "m.notice" ELSE "m.text"]

send_text_body(text, html, unformatted_text, notice) ==
    IF html
    THEN [body |-> IF Truthy(unformatted_text) THEN unformatted_text ELSE text,
          msgtype |-> IF notice THEN "m.notice" ELSE "m.text",
          format |-> "org.matrix.custom.html",
          formatted_body |-> text]
    ELSE [body |-> text,
          msgtype |-> IF notice THEN "m.notice" ELSE "m.text"]

\* IntentAPI.send_text
send_text(it, room_id, text, html, unformatted_text, notice) ==
    send_message(it, room_id, send_text_body(text, html, unformatted_text, notice))

\* _ensure_registered followed by one call of the client, whose
\* MatrixRequestError propagates unwrapped.
registered_then(it, api, user, content) ==
    UNION {IF r.exc # NoExc
           THEN {r}
           ELSE {Res(r.it,
                     Append(r.calls, Request(api, it.client, "", user, "", content,
                                             NoParams, o)),
                     IF o = Ok THEN NoExc ELSE MatrixRequestError(o)) :
                 o \in Opaque} :
           r \in ensure_registered(it)}

\* IntentAPI.set_display_name
set_display_name(it, name) ==
    registered_then(it, "set_display_name", it.mxid, [displayname |-> name])

\* HTTPAPI.create_room, called with its default arguments: the content has
\* the visibility and is_direct, and none of the optional fields.
create_room_content == [visibility |-> "private", is_direct |-> FALSE]

\* IntentAPI.create_room
create_room(it) == registered_then(it, "create_room", NoSeq, create_room_content)

\* IntentAPI.join_room
join_room(it, room_id) == ensure_joined(it, room_id, TRUE)

\* HTTPAPI.intent: IntentAPI(user, self.user(user), self); the cache is
\* touched before the constructor can raise.
HTTPAPI_intent(ch, bl, its, u) ==
    LET c == HTTPAPI_user(ch, bl, u)
        n == IntentAPI_init(u, c.ret, RouterRef)
    IN [children |-> c.children, built |-> c.built, intents |-> its \o n.obj,
        exc |-> n.exc, ret |-> IF n.exc = NoExc THEN Len(its) + 1 ELSE 0]

\* HTTPAPI.bot_intent: IntentAPI(self.bot_mxid, self), no bot argument.
HTTPAPI_bot_intent(ch, bl, its) ==
    LET n == IntentAPI_init(BotMxid, RootCtx, None)
    IN [children |-> ch, built |-> bl, intents |-> its \o n.obj,
        exc |-> n.exc, ret |-> IF n.exc = NoExc THEN Len(its) + 1 ELSE 0]

\* IntentAPI.user: self.client.intent(user) when there is no bot, else
\* ValueError. The client of an Intent without bot is the router.
IntentAPI_user_unguarded(ch, bl, its, i, u) == HTTPAPI_intent(ch, bl, its, u)

IntentAPI_user(ch, bl, its, i, u) ==
    IF its[i].bot = None
    THEN HTTPAPI_intent(ch, bl, its, u)
    ELSE [children |-> ch, built |-> bl, intents |-> its,
          exc |-> ValueError("only available for base intent objects"), ret |-> 0]

\* ---------------------------------------------------------------- actions
\* The record of one operation: which method on which Intent with which
\* arguments, the Intent before it, the transport calls made, the exception
\* raised, the object returned, and (for _ensure_registered) what the call
\* directly before it did.
Op(op, i, room, user, before, calls, exc, ret, prev) ==
    [op |-> op, intent |-> i, room |-> room, user |-> user, before |-> before,
     calls |-> calls, exc |-> exc, ret |-> ret, prev |-> prev, args |-> <<>>]

NoPrev == [regs |-> -1, raised |-> FALSE]

CallsOf(calls, api) == {k \in 1..Len(calls) : calls[k].api = api}
RegisterCalls(calls) == Cardinality(CallsOf(calls, "register"))

Init ==
    /\ children = <<>>
    /\ built = [u \in Users |-> 0]
    /\ intents = <<>>
    /\ regSeen = {}
    /\ txn = HTTPAPI_init_txn
    /\ written = [value |-> 0, by |-> RootCtx]
    /\ last = Op("init", 0, "", NoSeq, <<>>, <<>>, NoExc, 0, NoPrev)

\* A step of the router: children, built and intents as r gives them.
RouterStep(op, i, u, r) ==
    /\ Len(r.intents) <= MaxIntents
    /\ children' = r.children
    /\ built' = r.built
    /\ intents' = r.intents
    /\ last' = Op(op, i, "", u, IF i = 0 THEN <<>> ELSE <<intents[i]>>, <<>>,
                  r.exc, r.ret, NoPrev)
    /\ UNCHANGED <<regSeen, txn, written>>

\* A step of one Intent: its fields as r gives them.
IntentStep(op, i, room, r, prev) ==
    /\ intents' = [intents EXCEPT ![i] = r.it]
    /\ regSeen' = IF RegisterCalls(r.calls) > 0
                  THEN regSeen \cup {intents[i].mxid} ELSE regSeen
    /\ last' = Op(op, i, room, NoSeq, <<intents[i]>>, r.calls, r.exc, 0, prev)
    /\ UNCHANGED <<children, built, txn, written>>

RouterUser ==
    \E u \in Users :
        LET c == HTTPAPI_user(children, built, u)
        IN RouterStep("HTTPAPI.user", 0, u,
                      [children |-> c.children, built |-> c.built, intents |-> intents,
                       exc |-> NoExc, ret |-> c.ret.serial])

RouterBotIntent ==
    RouterStep("HTTPAPI.bot_intent", 0, NoSeq, HTTPAPI_bot_intent(children, built, intents))

RouterIntent ==
    \E u \in Users :
        RouterStep("HTTPAPI.intent", 0, u, HTTPAPI_intent(children, built, intents, u))

IntentUser ==
    \E i \in 1..Len(intents), u \in Users :
        RouterStep("IntentAPI.user", i, u, IntentAPI_user(children, built, intents, i, u))

IntentJoinRoom ==
    \E i \in 1..Len(intents), room \in Rooms :
        \E r \in join_room(intents[i], room) :
            IntentStep("join_room", i, room, r, NoPrev)

\* The event that send_event and send_state_event are called with.
SampleMessage == [body |-> "hi", msgtype |-> "m.text"]
SampleState == [name |-> "Room"]

IntentSendEvent ==
    \E i \in 1..Len(intents), room \in Rooms :
        \E r \in send_event(intents[i], room, "m.room.message", SampleMessage) :
            IntentStep("send_event", i, room, r, NoPrev)

IntentSendStateEvent ==
    \E i \in 1..Len(intents), room \in Rooms :
        \E r \in send_state_event(intents[i], room, "m.room.name", SampleState) :
            IntentStep("send_state_event", i, room, r, NoPrev)

\* The arguments send_text is called with: text, html, unformatted_text, notice.
Texts == {"<b>hi</b>"}
Unformatted == {None, "", "hi"}

IntentSendText ==
    \E i \in 1..Len(intents), room \in Rooms, text \in Texts, html \in BOOLEAN,
       unformatted_text \in Unformatted, notice \in BOOLEAN :
        \E r \in send_text(intents[i], room, text, html, unformatted_text, notice) :
            /\ intents' = [intents EXCEPT ![i] = r.it]
            /\ regSeen' = IF RegisterCalls(r.calls) > 0
                          THEN regSeen \cup {intents[i].mxid} ELSE regSeen
            /\ last' = [Op("send_text", i, room, NoSeq, <<intents[i]>>, r.calls, r.exc,
                           0, NoPrev)
                        EXCEPT !.args = [text |-> text, html |-> html,
                                         unformatted_text |-> unformatted_text,
                                         notice |-> notice]]
            /\ UNCHANGED <<children, built, txn, written>>

IntentSetDisplayName ==
    \E i \in 1..Len(intents) :
        \E r \in set_display_name(intents[i], "Alice") :
            IntentStep("set_display_name", i, "", r, NoPrev)

IntentCreateRoom ==
    \E i \in 1..Len(intents) :
        \E r \in create_room(intents[i]) :
            IntentStep("create_room", i, "", r, NoPrev)

\* _ensure_registered called on its own; prev tells how many register calls
\* the call before it made and whether it raised, when that call was
\* _ensure_registered on the same Intent, and is NoPrev otherwise.
IntentEnsureRegistered ==
    \E i \in 1..Len(intents) :
        \E r \in ensure_registered(intents[i]) :
            IntentStep("_ensure_registered", i, "", r,
                       IF last.op = "_ensure_registered" /\ last.intent = i
                       THEN [regs |-> RegisterCalls(last.calls), raised |-> last.exc # NoExc]
                       ELSE NoPrev)

\* The contexts that exist: the router and the derived contexts it caches.
Contexts == {RootCtx} \cup {children[u] : u \in DOMAIN children}

\* context.txn_id = value
TxnIdSet ==
    \E c \in Contexts, value \in 0..MaxTxn :
        /\ txn' = txn_id_set(txn, c, value)
        /\ written' = [value |-> value, by |-> c]
        /\ last' = Op("txn_id.set", 0, "", c.identity, <<>>, <<>>, NoExc, value, NoPrev)
        /\ UNCHANGED <<children, built, intents, regSeen>>

\* context.txn_id
TxnIdGet ==
    \E c \in Contexts :
        /\ last' = Op("txn_id", 0, "", c.identity, <<>>, <<>>, NoExc, txn_id(txn, c), NoPrev)
        /\ UNCHANGED <<children, built, intents, regSeen, txn, written>>

Next ==
    \/ RouterUser
    \/ RouterBotIntent
    \/ RouterIntent
    \/ IntentUser
    \/ IntentJoinRoom
    \/ IntentSendEvent
    \/ IntentSendStateEvent
    \/ IntentSetDisplayName
    \/ IntentCreateRoom
    \/ IntentEnsureRegistered

Spec == Init /\ [][Next]_vars

\* context._send(method, path, content, query_params), with the query
\* parameters a caller may pass: none, some other key, or a user_id.
QueryParams == {NoParams, [ts |-> "1"], [user_id |-> BotMxid], [user_id |-> Alice, ts |-> "1"]}

ContextSend ==
    \E c \in Contexts, query_params \in QueryParams, o \in Opaque :
        /\ last' = [Op("_send", 0, "", c.identity, <<>>,
                       <<Request("_send", c, "", NoSeq, "", NoBody, query_params, o)>>,
                       IF o = Ok THEN NoExc ELSE MatrixRequestError(o), 0, NoPrev)
                    EXCEPT !.args = query_params]
        /\ UNCHANGED <<children, built, intents, regSeen, txn, written>>

\* The router handing out contexts and Intents, and requests through them.
NextSend ==
    \/ RouterUser
    \/ RouterBotIntent
    \/ RouterIntent
    \/ IntentCreateRoom
    \/ ContextSend

SpecSend == Init /\ [][NextSend]_vars

\* The router handing out contexts, and txn_id read and assigned through them.
NextTxn ==
    \/ RouterUser
    \/ TxnIdSet
    \/ TxnIdGet

SpecTxn == Init /\ [][NextTxn]_vars

\* Intents of virtual users sending text messages.
RouterIntentSender == Len(intents) < MaxSenders /\ RouterIntent

NextText ==
    \/ RouterIntentSender
    \/ IntentSendText

SpecText == Init /\ [][NextText]_vars

\* ---------------------------------------------------------------- claims
\* What the latest operation was about.
Before == last.before[1]
After == intents[last.intent]
JoinOps == {"join_room", "send_event", "send_state_event"}
SendOps == {"send_event", "send_state_event"}
SendApis == {"send_message_event", "send_state_event"}
Count(api) == Cardinality(CallsOf(last.calls, api))
Sends == {k \in 1..Len(last.calls) : last.calls[k].api \in SendApis}
\* The position of the first join_room call of the latest operation.
J1 == SetMin(CallsOf(last.calls, "join_room"))
FirstJoinFailed ==
    /\ last.op \in JoinOps
    /\ CallsOf(last.calls, "join_room") # {}
    /\ last.calls[J1].res # Ok
\* M_FORBIDDEN is the errcode of the JSON content JsonForbidden alone.
FirstJoinForbidden == FirstJoinFailed /\ last.calls[J1].res = JsonForbidden
\* _ensure_joined returned normally inside the latest operation.
EnsureJoinedReturned ==
    IF last.op = "join_room" THEN last.exc = NoExc ELSE Sends # {}
\* The invite of the latest operation: through the router, for this Intent.
IsInvite(c) ==
    /\ c.api = "invite_user" /\ c.client = RootCtx
    /\ c.room = last.room /\ c.user = Before.mxid
IsJoin(c) ==
    c.api = "join_room" /\ c.client = Before.client /\ c.room = last.room

\* C1 as stated: with a bot-delegate and a first join failing M_FORBIDDEN, the
\* delegate's invite is called exactly once and then join_room exactly once
\* more; if that second join succeeds, _ensure_joined returns without error
\* and memberships[r] = "join".
C1_Claim ==
    (FirstJoinForbidden /\ Before.bot # None) =>
        /\ Count("invite_user") = 1
        /\ Count("join_room") = 2
        /\ Len(last.calls) >= J1 + 2
        /\ IsInvite(last.calls[J1 + 1])
        /\ IsJoin(last.calls[J1 + 2])
        /\ last.calls[J1 + 2].res = Ok =>
               /\ EnsureJoinedReturned
               /\ MembershipGet(After.memberships, last.room) = "join"

\* C1 amended: with a bot-delegate and a first join failing M_FORBIDDEN, the
\* delegate's invite is called exactly once, directly after that join; if the
\* invite succeeds join_room is called exactly once more, and if that second
\* join succeeds _ensure_joined returns without error and memberships[r] =
\* "join"; if the invite fails no second join is made and the invite's failure
\* is raised as IntentError.
C1_InviteThenRetry ==
    (FirstJoinForbidden /\ Before.bot # None) =>
        /\ Count("invite_user") = 1
        /\ Len(last.calls) >= J1 + 1
        /\ IsInvite(last.calls[J1 + 1])
        /\ IF last.calls[J1 + 1].res = Ok
           THEN /\ Count("join_room") = 2
                /\ Len(last.calls) >= J1 + 2
                /\ IsJoin(last.calls[J1 + 2])
                /\ last.calls[J1 + 2].res = Ok =>
                       /\ EnsureJoinedReturned
                       /\ MembershipGet(After.memberships, last.room) = "join"
           ELSE /\ Count("join_room") = 1
                /\ Len(last.calls) = J1 + 1
                /\ last.exc = IntentError("join", last.calls[J1 + 1].res)
                /\ After.memberships = Before.memberships

C1_Witness ==
    /\ FirstJoinForbidden /\ Before.bot # None
    /\ Count("invite_user") = 1 /\ Count("join_room") = 2
    /\ last.calls[J1 + 1].res = Ok /\ last.calls[J1 + 2].res = Ok
    /\ last.exc = NoExc
    /\ MembershipGet(Before.memberships, last.room) = ""
    /\ MembershipGet(After.memberships, last.room) = "join"

\* C2 as stated: a first join failing with any code other than M_FORBIDDEN is
\* raised at once as IntentError, bot-delegate or not: no invite, no second
\* join, memberships[r] not set.
C2_Claim ==
    (FirstJoinFailed /\ ~FirstJoinForbidden) =>
        /\ last.exc = IntentError("join", last.calls[J1].res)
        /\ Count("invite_user") = 0
        /\ Count("join_room") = 1
        /\ After.memberships = Before.memberships

\* C3 as stated: without a bot-delegate, a first join failing M_FORBIDDEN is
\* raised at once as IntentError wrapping the transport failure: no invite, no
\* second join, memberships[r] unchanged.
C3_Claim ==
    (FirstJoinForbidden /\ Before.bot = None) =>
        /\ last.exc = IntentError("join", last.calls[J1].res)
        /\ Count("invite_user") = 0
        /\ Count("join_room") = 1
        /\ After.memberships = Before.memberships

\* C4 as stated: join_room(r) always makes a real transport join_room(r)
\* call, also when memberships[r] is already "join" (a call that registration
\* stopped with its own error aside).
C4_Claim ==
    (last.op = "join_room" /\ ~(last.exc.type = "IntentError" /\ last.exc.msg = "register")) =>
        \E k \in 1..Len(last.calls) : IsJoin(last.calls[k])

\* C5 as stated: when memberships[r] is already "join", the ensure-joined of
\* send_event / send_state_event makes no register and no join_room call
\* before the event is sent.
C5_Claim ==
    (last.op \in SendOps /\ MembershipGet(Before.memberships, last.room) = "join") =>
        /\ Count("register") = 0
        /\ Count("join_room") = 0

\* C6 as stated: whatever the transport does, two consecutive
\* _ensure_registered calls on one Intent make at most one register call.
C6_Claim ==
    (last.op = "_ensure_registered" /\ last.prev # NoPrev) =>
        last.prev.regs + Count("register") <= 1

\* C6 amended: when the first of two consecutive _ensure_registered calls
\* returns without raising (register succeeded or failed M_USER_IN_USE, or
\* the Intent was registered before), the second is a no-op and the two make
\* at most one register call; when the first raised, the flag is still false
\* and the second call issues register again.
C6_SecondCallNoOp ==
    (last.op = "_ensure_registered" /\ last.prev # NoPrev) =>
        IF ~last.prev.raised
        THEN /\ Before.registered
             /\ last.calls = <<>>
             /\ last.exc = NoExc
             /\ After = Before
             /\ last.prev.regs + Count("register") <= 1
        ELSE /\ ~Before.registered
             /\ last.prev.regs = 1
             /\ Count("register") = 1

C6_Witness ==
    /\ last.op = "_ensure_registered"
    /\ last.prev = [regs |-> 1, raised |-> FALSE]
    /\ last.calls = <<>>
    /\ After.registered

\* The latest step issued a transport register call for mxid u.
RegisteredFor(l, u) ==
    /\ l.intent > 0
    /\ l.before[1].mxid = u
    /\ CallsOf(l.calls, "register") # {}

\* C7 as stated: the transport register call for an identifier u is issued
\* at most once in total, over all Intents obtained for u: no step issues
\* register for u once one has been issued for u.
C7_Claim ==
    [][\A u \in Users \cup {BotMxid} : RegisteredFor(last', u) => u \notin regSeen]_vars

\* C7 amended: registration is attempted at most once per Intent object, not
\* per identity, and only until it stops failing fatally: an operation issues
\* at most one register call and only with the Intent's registered flag
\* false; a register call that succeeds or fails M_USER_IN_USE sets the flag;
\* and an Intent whose flag is set keeps it and issues no register again.
C7_OncePerIntent ==
    /\ [](last.intent > 0 =>
            /\ Count("register") <= 1
            /\ Count("register") = 1 => ~Before.registered
            /\ \A k \in CallsOf(last.calls, "register") :
                   last.calls[k].res \in {Ok, JsonInUse} => After.registered)
    /\ [][\A i \in 1..Len(intents) :
            intents[i].registered =>
                /\ intents'[i].registered
                /\ last'.intent = i => CallsOf(last'.calls, "register") = {}]_vars

\* Two Intents for one identifier, each registered by its own register call.
C7_Witness ==
    /\ Len(intents) = 2
    /\ intents[1].mxid = intents[2].mxid
    /\ intents[1].registered /\ intents[2].registered
    /\ last.intent = 2 /\ Count("register") = 1

\* C8: when the transport register call fails with M_USER_IN_USE,
\* _ensure_registered does not raise and the Intent's registered flag is true
\* afterwards, so the enclosing operation goes on to its next step (the
\* join_room call, for the operations that ensure membership).
C8_AlreadyExistsIsSuccess ==
    \A k \in CallsOf(last.calls, "register") :
        last.calls[k].res = JsonInUse =>
            /\ After.registered
            /\ ~(last.exc.type = "IntentError" /\ last.exc.msg = "register")
            /\ last.op = "_ensure_registered" => last.exc = NoExc
            /\ last.op \in JoinOps =>
                   Len(last.calls) > k /\ IsJoin(last.calls[k + 1])

C8_Witness ==
    /\ last.op = "send_event"
    /\ ~Before.registered
    /\ Len(last.calls) >= 2
    /\ last.calls[1].api = "register" /\ last.calls[1].res = JsonInUse
    /\ IsJoin(last.calls[2])
    /\ After.registered

\* C9: every Intent obtained through intent(u) is bound to the one context
\* cached for u; the identity cache holds at most one context per
\* identifier, made on first access and never replaced or evicted (so the
\* only context ever built for u is the one cached).
C9_OneContextPerIdentity ==
    /\ \A u \in Users :
        /\ built[u] <= 1
        /\ u \in DOMAIN children <=> built[u] = 1
        /\ u \in DOMAIN children => children[u] = ChildHTTPAPI(u, 1)
    /\ \A i \in 1..Len(intents) :
        intents[i].bot # None =>
            /\ intents[i].mxid \in DOMAIN children
            /\ intents[i].client = children[intents[i].mxid]
    /\ \A i, j \in 1..Len(intents) :
        (intents[i].bot # None /\ intents[j].bot # None
            /\ intents[i].mxid = intents[j].mxid) => intents[i].client = intents[j].client

C9_Witness ==
    /\ Len(intents) = 2
    /\ intents[1].bot # None /\ intents[2].bot # None
    /\ intents[1].mxid = Alice /\ intents[2].mxid = Alice
    /\ intents[1].client = intents[2].client
    /\ NoSigil \in DOMAIN children
    /\ last.op = "HTTPAPI.user" /\ last.user = Alice

\* The step just taken was user(identity) on Intent i.
UserCalled(i) == last'.op = "IntentAPI.user" /\ last'.intent = i
ContractViolation == ValueError("only available for base intent objects")
\* The step added one Intent, built by the router for identity u.
Minted(u) ==
    /\ last'.exc = NoExc
    /\ Len(intents') = Len(intents) + 1
    /\ last'.ret = Len(intents')
    /\ SubSeq(intents', 1, Len(intents)) = intents
    /\ intents'[last'.ret].mxid = u
    /\ intents'[last'.ret].bot = RouterRef
    /\ u \in DOMAIN children'
    /\ intents'[last'.ret].client = children'[u]
    /\ intents'[last'.ret].memberships = <<>>
    /\ ~intents'[last'.ret].registered

\* C10 as stated: user(identity) on an Intent without bot-delegate returns a
\* new Intent minted by the router for that identity; on an Intent obtained
\* by intent(u) it fails with the contract-violation error and neither
\* creates an Intent nor touches the identity cache.
C10_Claim ==
    [][\A i \in 1..Len(intents) :
        UserCalled(i) =>
            IF intents[i].bot = None
            THEN Minted(last'.user)
            ELSE /\ last'.exc = ContractViolation
                 /\ intents' = intents
                 /\ children' = children /\ built' = built]_vars

\* C10 amended: user(identity) is callable exactly on Intents without a
\* bot-delegate; there it returns a new Intent minted by the router when the
\* identity has the form mxid_regex accepts, and otherwise fails with the
\* constructor's ValueError("invalid MXID") after the router cached a context
\* for it, creating no Intent. On an Intent obtained by intent(u) it fails
\* with the contract-violation error, creating no Intent and leaving the
\* identity cache alone.
C10_UserOnlyOnBotIntent ==
    [][\A i \in 1..Len(intents) :
        UserCalled(i) =>
            IF intents[i].bot = None
            THEN IF mxid_regex_matches(last'.user)
                 THEN Minted(last'.user)
                 ELSE /\ last'.exc = ValueError("invalid MXID")
                      /\ intents' = intents
                      /\ last'.user \in DOMAIN children'
            ELSE /\ last'.exc = ContractViolation
                 /\ intents' = intents
                 /\ children' = children /\ built' = built]_vars

C10_Witness ==
    /\ last.op = "IntentAPI.user"
    /\ Before.bot = None
    /\ last.exc = NoExc
    /\ last.user = Alice
    /\ last.ret = 2 /\ Len(intents) = 2
    /\ intents[2].mxid = Alice /\ intents[2].bot = RouterRef

\* C11: a derived context never owns a txn counter of its own: whatever was
\* read or assigned through the router or a derived context, the router and
\* every derived context observe the value of the most recent assignment, and
\* a read returns it.
C11_SharedTxnId ==
    /\ DOMAIN txn = {RootCtx}
    /\ \A c \in Contexts : txn_id(txn, c) = written.value
    /\ last.op = "txn_id" => last.ret = written.value

\* A value assigned through one derived context is read through another.
C11_Witness ==
    /\ last.op = "txn_id"
    /\ last.user = Alice
    /\ written.by = ChildHTTPAPI(NoSigil, 1)
    /\ written.value = 2
    /\ last.ret = 2

\* C12: send_text builds the body its flags ask for. Without html the body is
\* exactly {body: text, msgtype}; with html it also has the format marker and
\* formatted_body = text, and body is unformatted_text, or text where no
\* unformatted_text is given (None or the empty string); msgtype is m.notice
\* with notice and m.text without. The body goes out as one m.room.message
\* event to the room, once the Intent is joined.
C12_Msgtype == IF last.args.notice THEN "m.notice" ELSE "m.text"

C12_Fallback ==
    IF last.args.unformatted_text \in {None, ""}
    THEN last.args.text ELSE last.args.unformatted_text

C12_Expected ==
    IF last.args.html
    THEN [body |-> C12_Fallback, msgtype |-> C12_Msgtype,
          format |-> "org.matrix.custom.html", formatted_body |-> last.args.text]
    ELSE [body |-> last.args.text, msgtype |-> C12_Msgtype]

C12_SendTextBody ==
    last.op = "send_text" =>
        /\ CallsOf(last.calls, "send_state_event") = {}
        /\ \A k \in CallsOf(last.calls, "send_message_event") :
              /\ k = Len(last.calls)
              /\ last.calls[k].etype = "m.room.message"
              /\ last.calls[k].room = last.room
              /\ last.calls[k].client = last.before[1].client
              /\ last.calls[k].body = C12_Expected
        /\ last.exc = NoExc => CallsOf(last.calls, "send_message_event") # {}

\* An HTML notice with no unformatted text was sent.
C12_Witness ==
    /\ last.op = "send_text"
    /\ last.exc = NoExc
    /\ last.args.html
    /\ last.args.notice
    /\ last.args.unformatted_text = None
    /\ last.calls[Len(last.calls)].body.body = "<b>hi</b>"
    /\ last.calls[Len(last.calls)].body.format = "org.matrix.custom.html"

\* The operations of an Intent that first ensure it is registered.
IntentOps == {"send_event", "send_state_event", "join_room", "set_display_name",
              "create_room"}
\* not Ok, and not "already exists"
Fatal(res) == res # Ok /\ matrix_error_code(res) # "M_USER_IN_USE"
FatalRegisters == {k \in CallsOf(last.calls, "register") : Fatal(last.calls[k].res)}

\* C13: when register fails with anything but "already exists", the operation
\* raises IntentError carrying that failure and stops: register is its only
\* transport call, and the registered flag and the membership cache are as
\* before.
C13_RegisterFailureStops ==
    (last.op \in IntentOps /\ FatalRegisters # {}) =>
        /\ last.exc.type = "IntentError"
        /\ last.exc.source = last.calls[1].res
        /\ Len(last.calls) = 1
        /\ After.registered = Before.registered
        /\ ~After.registered
        /\ After.memberships = Before.memberships

\* create_room stopped at a register that failed with a non-JSON error.
C13_Witness ==
    /\ last.op = "create_room"
    /\ FatalRegisters = {1}
    /\ last.calls[1].res = NotJson
    /\ last.exc = IntentError("register", NotJson)

\* _ensure_joined raised within the calls made before position k: a register
\* failed fatally, an invite failed, or the last join_room failed.
JoinsBefore(k) == {j \in CallsOf(last.calls, "join_room") : j < k}
EnsureJoinedRaisedBefore(k) ==
    \/ \E j \in FatalRegisters : j < k
    \/ \E j \in CallsOf(last.calls, "invite_user") : j < k /\ last.calls[j].res # Ok
    \/ JoinsBefore(k) # {} /\ last.calls[SetMax(JoinsBefore(k))].res # Ok

\* C14: send_event and send_state_event call the transport's send only after
\* _ensure_joined has returned without error in the same call: the send is the
\* last call, what precedes it did not fail, and the room is cached as joined;
\* when _ensure_joined raises, no send is made.
C14_SendOnlyAfterJoined ==
    last.op \in SendOps =>
        /\ \A k \in Sends :
              /\ k = Len(last.calls)
              /\ ~EnsureJoinedRaisedBefore(k)
              /\ MembershipGet(After.memberships, last.room) = "join"
        /\ EnsureJoinedRaisedBefore(Len(last.calls) + 1) => Sends = {}
        /\ last.exc.type \in {"IntentError", "AttributeError"} => Sends = {}

\* send_event made no send after the retried join failed.
C14_Witness ==
    /\ last.op = "send_event"
    /\ Count("invite_user") = 1
    /\ Count("join_room") = 2
    /\ last.calls[Len(last.calls)].api = "join_room"
    /\ last.calls[Len(last.calls)].res # Ok
    /\ last.exc.type = "IntentError"
    /\ Sends = {}

\* The failed invite or retried join of the latest operation, if any.
FailedRescue ==
    {k \in 1..Len(last.calls) :
        /\ last.calls[k].res # Ok
        /\ \/ last.calls[k].api = "invite_user"
           \/ last.calls[k].api = "join_room" /\ k > J1}

\* C15: the invite-then-retry recovery is single-shot. A failing invite or
\* retried join is raised as IntentError carrying it, is the last transport
\* call of the operation, and leaves the membership cache as it was; and an
\* operation of an Intent makes at most one register, two join_room and one
\* invite call.
C15_SingleShot ==
    (last.intent > 0 /\ last.op \in IntentOps) =>
        /\ Count("register") <= 1
        /\ Count("join_room") <= 2
        /\ Count("invite_user") <= 1
        /\ Len(last.calls) <= 5
        /\ \A k \in FailedRescue :
              /\ k = Len(last.calls)
              /\ last.exc = IntentError("join", last.calls[k].res)
              /\ After.memberships = Before.memberships

\* The retried join failed, on an Intent that had no membership cached.
C15_Witness ==
    /\ last.op = "join_room"
    /\ Count("join_room") = 2
    /\ Count("invite_user") = 1
    /\ FailedRescue = {Len(last.calls)}
    /\ last.calls[Len(last.calls)].api = "join_room"
    /\ MembershipGet(After.memberships, last.room) = ""

\* C16: the caches only grow: a registered flag that is true stays true, a
\* membership that is "join" stays "join", and no Intent goes away.
C16_CachesMonotonic ==
    [][/\ Len(intents) <= Len(intents')
       /\ \A i \in 1..Len(intents) :
             \/ intents'[i] = intents[i]
             \/ /\ intents[i].registered => intents'[i].registered
                /\ \A r \in Rooms :
                      MembershipGet(intents[i].memberships, r) = "join"
                          => MembershipGet(intents'[i].memberships, r) = "join"]_vars

\* An operation failed on an Intent that was registered and joined, and it
\* still is both.
C16_Witness ==
    /\ last.op \in SendOps
    /\ last.exc.type = "IntentError"
    /\ Before.registered
    /\ MembershipGet(Before.memberships, last.room) = "join"
    /\ After.registered
    /\ MembershipGet(After.memberships, last.room) = "join"

\* In the operation l of Intent it, the transport accepted a join of room r
\* through the Intent's client, and nothing but a send followed it.
AcceptedJoin(l, it, r) ==
    \E k \in CallsOf(l.calls, "join_room") :
        /\ l.calls[k].res = Ok
        /\ l.calls[k].room = r
        /\ l.calls[k].client = it.client
        /\ l.calls[k].query["user_id"] = it.client.identity
        /\ \A j \in (k + 1)..Len(l.calls) : l.calls[j].api \in SendApis

\* C17: memberships[r] becomes "join" only in an operation of that Intent in
\* which the transport accepted its join_room(r), as the last call before the
\* cache is written; and a new Intent starts with an empty membership cache
\* and registered false. So a cached "join" always has an accepted join behind
\* it.
C17_JoinCachedOnlyAfterJoin ==
    [][\A i \in 1..Len(intents') :
          IF i > Len(intents)
          THEN intents'[i].memberships = <<>> /\ ~intents'[i].registered
          ELSE \/ intents'[i].memberships = intents[i].memberships
               \/ \A r \in Rooms :
                     (MembershipGet(intents'[i].memberships, r) = "join"
                      /\ MembershipGet(intents[i].memberships, r) # "join")
                         => /\ last'.intent = i
                            /\ last'.room = r
                            /\ AcceptedJoin(last', intents[i], r)]_vars

\* The cache was written after the invite and an accepted second join.
C17_Witness ==
    /\ last.op = "join_room"
    /\ Count("invite_user") = 1
    /\ Count("join_room") = 2
    /\ last.calls[Len(last.calls)].res = Ok
    /\ MembershipGet(Before.memberships, last.room) = ""
    /\ MembershipGet(After.memberships, last.room) = "join"

\* C18: an operation of an Intent makes no transport call other than register
\* while the Intent's registered flag is false: before any other call the flag
\* was true at the start, or a register call of this operation succeeded or
\* failed with "already exists".
C18_RegisteredBeforeAnyCall ==
    (last.intent > 0 /\ last.op \in IntentOps) =>
        \A k \in 1..Len(last.calls) :
            last.calls[k].api # "register" =>
                \/ Before.registered
                \/ \E j \in CallsOf(last.calls, "register") :
                      j < k /\ ~Fatal(last.calls[j].res)

\* set_display_name on an unregistered Intent: register, then the call.
C18_Witness ==
    /\ last.op = "set_display_name"
    /\ ~Before.registered
    /\ Len(last.calls) = 2
    /\ last.calls[1].api = "register"
    /\ last.calls[1].res = JsonInUse
    /\ last.calls[2].api = "set_display_name"
    /\ After.registered

\* C19: every request through the context of an Intent made by intent(u) goes
\* out with user_id = u: the cache entry for u is a context with identity u,
\* such an Intent's client is that entry, and _send puts the identity of the
\* context in user_id whatever the caller supplied there.
C19_UserIdIsIdentity ==
    /\ \A u \in DOMAIN children : children[u].identity = u
    /\ \A i \in 1..Len(intents) :
          intents[i].bot # None =>
              /\ intents[i].mxid \in DOMAIN children
              /\ intents[i].client = children[intents[i].mxid]
    /\ \A k \in 1..Len(last.calls) :
          /\ last.calls[k].query["user_id"] = last.calls[k].client.identity
          /\ (last.intent > 0 /\ Before.bot # None /\ last.calls[k].client = Before.client)
                => last.calls[k].query["user_id"] = Before.mxid
    /\ last.op = "_send" =>
          \A key \in DOMAIN last.args :
              key # "user_id" => last.calls[1].query[key] = last.args[key]

\* A request through the context of Alice, whose caller supplied the user_id
\* of the bot, went out as Alice.
C19_Witness ==
    /\ last.op = "_send"
    /\ last.user = Alice
    /\ \E i \in 1..Len(intents) : intents[i].bot # None /\ intents[i].client.identity = Alice
    /\ last.args = [user_id |-> BotMxid]
    /\ last.calls[1].query["user_id"] = Alice

\* C20: an Intent whose cache has a room as joined is registered.
C20_JoinedImpliesRegistered ==
    \A i \in 1..Len(intents) :
        (\E r \in Rooms : MembershipGet(intents[i].memberships, r) = "join")
            => intents[i].registered

\* An Intent that was unregistered joined a room: registered and joined.
C20_Witness ==
    /\ last.op = "join_room"
    /\ last.exc = NoExc
    /\ ~Before.registered
    /\ Count("register") = 1
    /\ MembershipGet(After.memberships, last.room) = "join"
    /\ After.registered

====
